---- MODULE Spec2Model ----
(***************************************************************************)
(* Job lifecycle of the image transformation service.                      *)
(*                                                                         *)
(* The repository carries two implementations of the job orchestrator     *)
(* over the same image_jobs table:                                         *)
(*   "router":  routers/images.py (process_image, process_image_task),     *)
(*              services/image_service.py, image_processing/processor.py   *)
(*   "service": services/image_job.py (ImageJobService.process_job),       *)
(*              services/image_processing.py                               *)
(* A deployment runs one of them; impl records which.                      *)
(*                                                                         *)
(* Status names follow models/image_job.py (QUEUED, PROCESSING, DONE,      *)
(* FAILED); the router spells the first and third PENDING and COMPLETED.   *)
(***************************************************************************)
EXTENDS Integers, Sequences, FiniteSets, TLC

(* ---------- bounds ---------- *)
MaxJobs == 1
MaxAttempts == 2
NumProcs == 2
\* parameter maps: largest value provided, most keys present at once
MaxParam == 16
MaxKeys == 2
\* images: largest side and largest cap
MaxDim == 23
MaxCap == 13
\* accounts, downloads of one job, rows of the payments table
NumUsers == 2
MaxDownloads == 1
MaxPayments == 2
\* files left behind by uploads that were turned away
MaxLeftovers == 2

(* ---------- domains ---------- *)
Procs == 1..NumProcs

\* two requests that are not about processing can be under way at once
RequestProcs == {1, 2}

\* users.id is an autoincrement primary key: the first user has id 1
FirstUser == 1

\* values a job row can hold in its style column; "nonexistent" is in no
\* dispatch table
StyleIds == {"cartoon", "nonexistent"}

\* keys of style_methods in image_processing/processor.py
RouterStyleMethods == {"cartoon", "pencil_sketch", "color_pencil", "edge_preserve", "watercolor"}

\* keys of style_methods in services/image_processing.py
ServiceStyleMethods == {"cartoon", "sketch", "color_pencil", "oil_painting", "watercolor", "pop_art"}

\* what the storage and the pipeline can do in one run
Outcomes == {"ok", "read_fail", "effect_raise", "write_raise", "write_silent"}

NoOutput == 0
NoError == <<>>
NoStyle == "none"

(* ---------- state ---------- *)
VARIABLES
    impl,       \* which orchestrator is deployed
    jobs,       \* image_jobs table: sequence of rows, id = index
    files,      \* artifacts present in PROCESSED_DIR
    nAttempts,  \* processing attempts accepted so far
    nRefs,      \* output paths generated so far (each uuid4 is fresh)
    pc,         \* position of each request / task / coroutine
    pjob,       \* job id the process works on
    pseen,      \* status of the row as the request handler loaded it
    pstyle,     \* style argument of the request, then style read by the task
    pres,       \* result of ImageProcessor.process_image held by the task
    event,      \* the answer of the last request handler
    payments,   \* payments table: sequence of rows, id = index
    call,       \* a call of a pure function of the pipeline: arguments and result
    users,      \* users table: sequence of rows, id = index
    req         \* what each request that is not about processing holds between its steps

vars == <<impl, jobs, files, nAttempts, nRefs, pc, pjob, pseen, pstyle, pres, event,
          payments, call, users, req>>

\* the rows of image_jobs; a deleted row keeps its index (ids are
\* autoincrement and never reused) and is marked DELETED
JobIds == {j \in 1..Len(jobs) : jobs[j].status # "DELETED"}

\* the answer of a request handler to user u about job j; file and hd are
\* the file_type and the hd query parameter of a file request
FileEv(op, u, j, file, hd, result) ==
    [op |-> op, user |-> u, job |-> j, file |-> file, hd |-> hd, result |-> result]

Ev(op, u, j, result) == FileEv(op, u, j, "none", FALSE, result)

\* any step that is not an answer of a request handler
Quiet == Ev("step", 0, 0, "none")

\* the lookup without the owner filter
GetJobByIdAnyUser(j, u) ==
    IF j \in JobIds THEN j ELSE 0

\* get_job_by_id(db, job_id, user_id) of both services: the id of the row, or
\* 0 for None; a user_id that is falsy (None, 0) does not filter by owner
GetJobById(j, u) ==
    IF j \in JobIds /\ (u = 0 \/ jobs[j].user = u) THEN j ELSE 0

Result(ok, effect, msg, ref, written) ==
    [ok |-> ok, effect |-> effect, msg |-> msg, ref |-> ref, written |-> written]

NoResultYet == Result(FALSE, "none", NoError, NoOutput, {})

\* a request that holds nothing: it has not begun or has been answered
NoRequest == [op |-> "none"]

\* no pure function has been called
NoCall == [fn |-> "none", args |-> <<>>, ret |-> <<>>, done |-> FALSE]

(* ---------- rows ---------- *)
\* original_path and original_filename of a row that has none
NoOriginal == [path |-> 0, filename |-> "none"]

\* the name of the file a client uploads
UploadName == "photo.png"

\* user is the owner, hd is is_hd_unlocked ("N" by default), downloads is
\* download_count
NewJob(user, style) ==
    [user |-> user, status |-> "QUEUED", style |-> style, output |-> NoOutput,
     comparison |-> NoOutput, error |-> NoError, hd |-> "N", downloads |-> 0,
     original |-> NoOriginal]

\* the row create_job and create_image_job add for the upload saved as the
\* original of job j: original_path and original_filename
UploadedJob(user, style, j, filename) ==
    [NewJob(user, style) EXCEPT !.original = [path |-> j, filename |-> filename]]

\* the file an upload is saved to
OriginalPath(j) == <<"original", j>>

Init ==
    /\ impl \in {"router", "service"}
    /\ jobs = <<>>
    /\ files = {}
    /\ nAttempts = 0
    /\ nRefs = 0
    /\ pc = [p \in Procs |-> "idle"]
    /\ pjob = [p \in Procs |-> 0]
    /\ pseen = [p \in Procs |-> "none"]
    /\ pstyle = [p \in Procs |-> NoStyle]
    /\ pres = [p \in Procs |-> NoResultYet]
    /\ event = Quiet
    /\ payments = <<>>
    /\ call = NoCall
    /\ users = <<>>
    /\ req = [p \in Procs |-> NoRequest]

\* the locals of a request, task or coroutine end with it
Forget(p) ==
    /\ pjob' = [pjob EXCEPT ![p] = 0]
    /\ pseen' = [pseen EXCEPT ![p] = "none"]
    /\ pstyle' = [pstyle EXCEPT ![p] = NoStyle]
    /\ pres' = [pres EXCEPT ![p] = NoResultYet]

(* ---------- upload / create ---------- *)
\* routers/images.py upload_image: save_uploaded_file, then create_job for
\* the current user
UploadImage(u, style) ==
    /\ impl = "router"
    /\ Len(jobs) < MaxJobs
    /\ jobs' = Append(jobs, UploadedJob(u, style, Len(jobs) + 1, UploadName))
    /\ files' = files \cup {OriginalPath(Len(jobs) + 1)}
    /\ event' = Quiet
    /\ UNCHANGED <<users, req, payments, call, impl, nAttempts, nRefs, pc, pjob, pseen, pstyle, pres>>

\* services/image_job.py save_upload_file, then create_job for user_id
CreateJob(u, style) ==
    /\ impl = "service"
    /\ Len(jobs) < MaxJobs
    /\ jobs' = Append(jobs, UploadedJob(u, style, Len(jobs) + 1, UploadName))
    /\ files' = files \cup {OriginalPath(Len(jobs) + 1)}
    /\ event' = Quiet
    /\ UNCHANGED <<users, req, payments, call, impl, nAttempts, nRefs, pc, pjob, pseen, pstyle, pres>>

(* ---------- pipelines ---------- *)
\* image_processing/processor.py, ImageProcessor.process_image: an id that is
\* not a key of style_methods gets the cartoon effect; the value returned by
\* cv2.imwrite is not looked at.  n is the uuid4 of the output paths.
RouterProcessImage(style, outcome, n) ==
    LET effect == IF style \in RouterStyleMethods THEN style ELSE "cartoon" IN
    CASE outcome = "read_fail" ->
            Result(FALSE, "none", <<"Could not read image", "original_path">>, NoOutput, {})
      [] outcome = "effect_raise" ->
            Result(FALSE, effect, <<"cv2.error", "">>, NoOutput, {})
      [] outcome = "write_raise" ->
            Result(FALSE, effect, <<"cv2.error", "">>, NoOutput, {})
      [] outcome = "write_silent" ->
            Result(TRUE, effect, NoError, n, {})
      [] OTHER ->
            Result(TRUE, effect, NoError, n, {<<"processed", n>>, <<"comparison", n>>})

\* services/image_processing.py, ImageProcessor.process_image with load_image
\* and save_image: an id that is not a key of style_methods raises ValueError;
\* the value returned by cv2.imwrite is not looked at.  n is the uuid4 of
\* generate_file_path.
ServiceProcessImage(style, outcome, n) ==
    CASE outcome = "read_fail" ->
            Result(FALSE, "none", <<"Could not load image from", "original_path">>, NoOutput, {})
      [] style \notin ServiceStyleMethods ->
            Result(FALSE, "none", <<"Unknown style", style>>, NoOutput, {})
      [] outcome = "effect_raise" ->
            Result(FALSE, style, <<"cv2.error", "">>, NoOutput, {})
      [] outcome = "write_raise" ->
            Result(FALSE, style, <<"cv2.error", "">>, NoOutput, {})
      [] outcome = "write_silent" ->
            Result(TRUE, style, NoError, n, {})
      [] OTHER ->
            Result(TRUE, style, NoError, n, {<<"output", n>>})

(* ---------- row updates ---------- *)
\* a completion that forgets to store the output reference
CompletedJobNoOutput(job, n) ==
    [job EXCEPT !.status = "DONE"]

\* process_image_task lines 174-179 and process_job lines 113-115
CompletedJob(job, n) ==
    [job EXCEPT !.output = n, !.status = "DONE",
                !.comparison = IF impl = "router" THEN n ELSE @]

\* a failure that also drops the reference to the source image
FailedJobLosesSource(job, msg) ==
    [job EXCEPT !.status = "FAILED", !.error = msg, !.original = NoOriginal]

\* process_image_task lines 187-189 and process_job lines 119-120
FailedJob(job, msg) ==
    [job EXCEPT !.status = "FAILED", !.error = msg]

\* update_job_status(db, job, JobStatus.PROCESSING) and process_job line 94
ProcessingJob(job) ==
    [job EXCEPT !.status = "PROCESSING"]

\* process_image lines 122-124
StyledJob(job, style) ==
    IF style # NoStyle THEN [job EXCEPT !.style = style] ELSE job

\* a guard that also turns away a failed job
IsBusyOrFailed(job) == job.status \in {"PROCESSING", "FAILED"}

\* process_image line 115
IsBusy(job) == job.status = "PROCESSING"

\* the style query parameter is an ImageStyleEnum or absent
RequestStyles == {NoStyle, "cartoon"}

(* ---------- router: POST /images/{job_id}/process ---------- *)
\* a handler that commits the style before it looks at the status
ProcessImageLoadStyleFirst(u, p, j, style) ==
    /\ impl = "router"
    /\ pc[p] = "idle"
    /\ IF GetJobById(j, u) = 0
       THEN /\ event' = Ev("process_image", u, j, "not_found")
            /\ UNCHANGED <<jobs, nAttempts, pc, pjob, pseen, pstyle>>
       ELSE IF IsBusy(jobs[j])
       THEN /\ jobs' = [jobs EXCEPT ![j] = StyledJob(@, style)]
            /\ event' = Ev("process_image", u, j, "busy")
            /\ UNCHANGED <<nAttempts, pc, pjob, pseen, pstyle>>
       ELSE /\ nAttempts < MaxAttempts
            /\ nAttempts' = nAttempts + 1
            /\ pc' = [pc EXCEPT ![p] = "checked"]
            /\ pjob' = [pjob EXCEPT ![p] = j]
            /\ pseen' = [pseen EXCEPT ![p] = jobs[j].status]
            /\ pstyle' = [pstyle EXCEPT ![p] = style]
            /\ jobs' = [jobs EXCEPT ![j] = StyledJob(@, style)]
            /\ event' = Ev("process_image", u, j, "accepted")
    /\ UNCHANGED <<users, req, payments, call, impl, files, nRefs, pres>>

\* lines 108-119: load the row, answer 404 or 400, or go on
ProcessImageLoad(u, p, j, style) ==
    /\ impl = "router"
    /\ pc[p] = "idle"
    /\ IF GetJobById(j, u) = 0
       THEN /\ event' = Ev("process_image", u, j, "not_found")
            /\ UNCHANGED <<jobs, nAttempts, pc, pjob, pseen, pstyle>>
       ELSE IF IsBusy(jobs[j])
       THEN /\ event' = Ev("process_image", u, j, "busy")
            /\ UNCHANGED <<jobs, nAttempts, pc, pjob, pseen, pstyle>>
       ELSE /\ nAttempts < MaxAttempts
            /\ nAttempts' = nAttempts + 1
            /\ pc' = [pc EXCEPT ![p] = "checked"]
            /\ pjob' = [pjob EXCEPT ![p] = j]
            /\ pseen' = [pseen EXCEPT ![p] = jobs[j].status]
            /\ pstyle' = [pstyle EXCEPT ![p] = style]
            /\ event' = Ev("process_image", u, j, "accepted")
            /\ UNCHANGED jobs
    /\ UNCHANGED <<users, req, payments, call, impl, files, nRefs, pres>>

\* lines 121-137: commit the style, add the background task, commit
\* PROCESSING and answer with the job
ProcessImageCommit(p) ==
    /\ impl = "router"
    /\ pc[p] = "checked"
    /\ jobs' = [jobs EXCEPT ![pjob[p]] = ProcessingJob(StyledJob(@, pstyle[p]))]
    /\ pc' = [pc EXCEPT ![p] = "scheduled"]
    /\ event' = Ev("process_image", jobs[pjob[p]].user, pjob[p], "processing")
    /\ UNCHANGED <<users, req, payments, call, impl, files, nAttempts, nRefs, pjob, pseen, pstyle, pres>>

(* ---------- router: process_image_task ---------- *)
\* lines 149-161: open a session and load the row; an exception here reaches
\* the handler with job unbound, and the handler's own failure is passed over
TaskLoad(p, sessionOk) ==
    /\ impl = "router"
    /\ pc[p] = "scheduled"
    /\ IF sessionOk
       THEN /\ pc' = [pc EXCEPT ![p] = "loaded"]
            /\ pstyle' = [pstyle EXCEPT ![p] = jobs[pjob[p]].style]
            /\ pseen' = [pseen EXCEPT ![p] = "none"]
            /\ UNCHANGED <<pjob, pres>>
       ELSE /\ pc' = [pc EXCEPT ![p] = "idle"]
            /\ Forget(p)
    /\ event' = Quiet
    /\ UNCHANGED <<users, req, payments, call, impl, jobs, files, nAttempts, nRefs>>

\* lines 163-169: processor.process_image(input_path, style)
TaskRun(p, outcome) ==
    /\ impl = "router"
    /\ pc[p] = "loaded"
    /\ LET r == RouterProcessImage(pstyle[p], outcome, nRefs + 1) IN
        /\ pres' = [pres EXCEPT ![p] = r]
        /\ files' = files \cup r.written
        /\ nRefs' = IF r.ok THEN nRefs + 1 ELSE nRefs
    /\ pc' = [pc EXCEPT ![p] = "ran"]
    /\ event' = Quiet
    /\ UNCHANGED <<users, req, payments, call, impl, jobs, nAttempts, pjob, pseen, pstyle>>

\* lines 173-196: commit the result, or on an exception commit FAILED; a
\* failure of the handler's commit is passed over
TaskCommit(p, db) ==
    /\ impl = "router"
    /\ pc[p] = "ran"
    /\ pres[p].ok \/ db # "fail_ok"
    /\ LET j == pjob[p] IN
       CASE pres[p].ok /\ db = "ok" ->
              jobs' = [jobs EXCEPT ![j] = CompletedJob(@, pres[p].ref)]
         [] pres[p].ok /\ db = "fail_ok" ->
              jobs' = [jobs EXCEPT ![j] = FailedJob(@, <<"db error", "">>)]
         [] ~pres[p].ok /\ db = "ok" ->
              jobs' = [jobs EXCEPT ![j] = FailedJob(@, pres[p].msg)]
         [] OTHER ->
              jobs' = jobs
    /\ pc' = [pc EXCEPT ![p] = "idle"]
    /\ Forget(p)
    /\ event' = Quiet
    /\ UNCHANGED <<users, req, payments, call, impl, files, nAttempts, nRefs>>

\* db.commit() of the result and of the handler: both work, the first fails
\* and the second works, both fail
DbOutcomes == {"ok", "fail_ok", "fail_fail"}

(* ---------- service: ImageJobService.process_job ---------- *)
\* lines 92-95: write PROCESSING and flush; the status is not looked at
ProcessJobBegin(p, j) ==
    /\ impl = "service"
    /\ pc[p] = "idle"
    /\ j \in JobIds
    /\ nAttempts < MaxAttempts
    /\ nAttempts' = nAttempts + 1
    /\ jobs' = [jobs EXCEPT ![j] = ProcessingJob(@)]
    /\ pc' = [pc EXCEPT ![p] = "flushed"]
    /\ pjob' = [pjob EXCEPT ![p] = j]
    /\ event' = Quiet
    /\ UNCHANGED <<users, req, payments, call, impl, files, nRefs, pseen, pstyle, pres>>

\* lines 97-125: run the pipeline, write DONE or FAILED and flush
ProcessJobRun(p, outcome) ==
    /\ impl = "service"
    /\ pc[p] = "flushed"
    /\ LET j == pjob[p]
           r == ServiceProcessImage(jobs[j].style, outcome, nRefs + 1) IN
        /\ files' = files \cup r.written
        /\ nRefs' = IF r.ok THEN nRefs + 1 ELSE nRefs
        /\ jobs' = [jobs EXCEPT ![j] = IF r.ok THEN CompletedJob(@, r.ref)
                                              ELSE FailedJob(@, r.msg)]
    /\ pc' = [pc EXCEPT ![p] = "idle"]
    /\ Forget(p)
    /\ event' = Quiet
    /\ UNCHANGED <<users, req, payments, call, impl, nAttempts>>

Next ==
    \/ \E s \in StyleIds : UploadImage(FirstUser, s)
    \/ \E s \in StyleIds : CreateJob(FirstUser, s)
    \/ \E p \in Procs, j \in 1..MaxJobs, s \in RequestStyles :
          ProcessImageLoad(FirstUser, p, j, s)
    \/ \E p \in Procs : ProcessImageCommit(p)
    \/ \E p \in Procs, ok \in BOOLEAN : TaskLoad(p, ok)
    \/ \E p \in Procs, o \in Outcomes : TaskRun(p, o)
    \/ \E p \in Procs, db \in DbOutcomes : TaskCommit(p, db)
    \/ \E p \in Procs, j \in 1..MaxJobs : ProcessJobBegin(p, j)
    \/ \E p \in Procs, o \in Outcomes : ProcessJobRun(p, o)

Spec == Init /\ [][Next]_vars

TypeOK ==
    /\ \A j \in JobIds : jobs[j].status \in {"QUEUED", "PROCESSING", "DONE", "FAILED"}
    /\ nAttempts \in 0..MaxAttempts
    /\ nRefs \in 0..nAttempts

(* ---------- parameters of the effects (services/image_processing.py) ---------- *)
\* Python's a | b on integers of any sign (two's complement without width)
RECURSIVE BitOr(_, _)
BitOr(a, b) ==
    IF a = 0 THEN b
    ELSE IF b = 0 THEN a
    ELSE IF a = -1 \/ b = -1 THEN -1
    ELSE 2 * BitOr(a \div 2, b \div 2) + (IF a % 2 = 1 \/ b % 2 = 1 THEN 1 ELSE 0)

\* dict.update: p with the items of params written over it
Update(p, params) ==
    [k \in DOMAIN p \cup DOMAIN params |->
        IF k \in DOMAIN params THEN params[k] ELSE p[k]]

\* the default parameters of the three effects that read params; weights are
\* in tenths (0.7 is 7) and invert is Python's True (1) or False (0)
CartoonDefaults ==
    [blur_kernel_size |-> 7, threshold_block_size |-> 9, threshold_c |-> 9,
     bilateral_d |-> 9, bilateral_sigma_color |-> 200, bilateral_sigma_space |-> 200]

SketchDefaults == [blur_kernel_size |-> 21, invert |-> 1]

ColorPencilDefaults == [sketch_weight |-> 7, color_weight |-> 3, blur_kernel_size |-> 21]

\* cartoon_effect: the arguments medianBlur, adaptiveThreshold and
\* bilateralFilter are called with
CartoonEffect(params) ==
    LET p == Update(CartoonDefaults, params) IN
    [blur_kernel_size |-> BitOr(p.blur_kernel_size, 1),
     threshold_block_size |-> BitOr(p.threshold_block_size, 1),
     threshold_c |-> p.threshold_c,
     bilateral_d |-> p.bilateral_d,
     bilateral_sigma_color |-> p.bilateral_sigma_color,
     bilateral_sigma_space |-> p.bilateral_sigma_space]

\* a sketch that passes the kernel size on as it was given
PencilSketchEffectAsGiven(params) ==
    LET p == Update(SketchDefaults, params) IN
    [blur_kernel_size |-> p.blur_kernel_size, invert |-> p.invert]

\* pencil_sketch_effect: the kernel size GaussianBlur is called with and the
\* flag the inversion looks at
PencilSketchEffect(params) ==
    LET p == Update(SketchDefaults, params) IN
    [blur_kernel_size |-> BitOr(p.blur_kernel_size, 1), invert |-> p.invert]

\* a colour pencil that hands its whole parameter map to the sketch
ColorPencilEffectAllKeys(params) ==
    LET p == Update(ColorPencilDefaults, params)
        sketch == PencilSketchEffect(p) IN
    [sketch_weight |-> p.sketch_weight, color_weight |-> p.color_weight,
     blur_kernel_size |-> sketch.blur_kernel_size, invert |-> sketch.invert]

\* color_pencil_effect: the sketch is made with the kernel size alone, then
\* addWeighted is called with the two weights
ColorPencilEffect(params) ==
    LET p == Update(ColorPencilDefaults, params)
        sketch == PencilSketchEffect([blur_kernel_size |-> p.blur_kernel_size]) IN
    [sketch_weight |-> p.sketch_weight, color_weight |-> p.color_weight,
     blur_kernel_size |-> sketch.blur_kernel_size, invert |-> sketch.invert]

\* values a caller provides for a key
ParamValues == -2..MaxParam

EffectNames == {"cartoon_effect", "pencil_sketch_effect", "color_pencil_effect"}

\* the defaults of the effect that is called
DefaultsOf(f) ==
    CASE f = "cartoon_effect" -> CartoonDefaults
      [] f = "pencil_sketch_effect" -> SketchDefaults
      [] OTHER -> ColorPencilDefaults

\* keys a caller provides: those of the effect, and two the effect may not have
ParamKeys(f) == DOMAIN DefaultsOf(f) \cup {"invert", "future_key"}

\* params_json: a map from some keys to values
ParamMaps(f) ==
    UNION {[d -> ParamValues] : d \in {x \in SUBSET ParamKeys(f) : Cardinality(x) <= MaxKeys}}

\* an effect is about to be called with a parameter map
InitParams ==
    /\ impl = "service"
    /\ jobs = <<>>
    /\ files = {}
    /\ nAttempts = 0
    /\ nRefs = 0
    /\ pc = [p \in Procs |-> "idle"]
    /\ pjob = [p \in Procs |-> 0]
    /\ pseen = [p \in Procs |-> "none"]
    /\ pstyle = [p \in Procs |-> NoStyle]
    /\ pres = [p \in Procs |-> NoResultYet]
    /\ event = Quiet
    /\ payments = <<>>
    /\ users = <<>>
    /\ req = [p \in Procs |-> NoRequest]
    /\ \E f \in EffectNames : \E m \in ParamMaps(f) :
          call = [fn |-> f, args |-> m, ret |-> <<>>, done |-> FALSE]

\* what no call of a pure function changes
NotCall ==
    <<impl, jobs, files, nAttempts, nRefs, pc, pjob, pseen, pstyle, pres, event, payments,
      users, req>>

\* the call returns ret; the arguments are the caller's and stay as they are
Return(ret) ==
    /\ call' = [call EXCEPT !.ret = ret, !.done = TRUE]
    /\ UNCHANGED NotCall

ApplyCartoonEffect ==
    /\ call.fn = "cartoon_effect" /\ ~call.done
    /\ Return(CartoonEffect(call.args))

ApplyPencilSketchEffect ==
    /\ call.fn = "pencil_sketch_effect" /\ ~call.done
    /\ Return(PencilSketchEffect(call.args))

ApplyColorPencilEffect ==
    /\ call.fn = "color_pencil_effect" /\ ~call.done
    /\ Return(ColorPencilEffect(call.args))

NextParams ==
    \/ ApplyCartoonEffect
    \/ ApplyPencilSketchEffect
    \/ ApplyColorPencilEffect

SpecParams == InitParams /\ [][NextParams]_vars

\* schemas/image.py: the declared [min, max] of each numeric field (weights
\* in tenths)
CartoonParams ==
    [blur_kernel_size |-> <<3, 21>>, threshold_block_size |-> <<3, 21>>,
     threshold_c |-> <<1, 20>>, bilateral_d |-> <<5, 15>>,
     bilateral_sigma_color |-> <<50, 300>>, bilateral_sigma_space |-> <<50, 300>>]

SketchParams == [blur_kernel_size |-> <<3, 51>>]

ColorPencilParams ==
    [sketch_weight |-> <<0, 10>>, color_weight |-> <<0, 10>>, blur_kernel_size |-> <<3, 51>>]

\* the declared ranges of the effect that was called
RangesOf(f) ==
    CASE f = "cartoon_effect" -> CartoonParams
      [] f = "pencil_sketch_effect" -> SketchParams
      [] OTHER -> ColorPencilParams

\* the parameters the code comments "ensure kernel sizes are odd"
MustBeOdd(f) ==
    IF f = "cartoon_effect" THEN {"blur_kernel_size", "threshold_block_size"}
    ELSE {"blur_kernel_size"}

(* ---------- resize (float arithmetic of the interpreter) ---------- *)
\* a Python float is an IEEE 754 double: 53 significant bits, results rounded
\* to nearest, ties to even.  A float is held as [m, e]: the bits m (most
\* significant first) read as an integer, divided by 2^e.
MantissaBits == 53

RECURSIVE Pow2(_)
Pow2(k) == IF k = 0 THEN 1 ELSE 2 * Pow2(k - 1)

RECURSIVE BitsToInt(_)
BitsToInt(bits) ==
    IF bits = <<>> THEN 0
    ELSE 2 * BitsToInt(SubSeq(bits, 1, Len(bits) - 1)) + bits[Len(bits)]

RECURSIVE IntToBits(_)
IntToBits(n) == IF n = 0 THEN <<>> ELSE Append(IntToBits(n \div 2), n % 2)

RECURSIVE StripZeros(_)
StripZeros(bits) ==
    IF bits # <<>> /\ bits[1] = 0 THEN StripZeros(Tail(bits)) ELSE bits

\* bits + 1: the last 0 bit becomes 1 and the 1 bits after it become 0
Inc(bits) ==
    LET zeros == {i \in 1..Len(bits) : bits[i] = 0} IN
    IF zeros = {} THEN <<1>> \o [i \in 1..Len(bits) |-> 0]
    ELSE LET j == CHOOSE i \in zeros : \A k \in zeros : k <= i IN
         [i \in 1..Len(bits) |-> IF i < j THEN bits[i] ELSE IF i = j THEN 1 ELSE 0]

\* the zero bits of r/b after the binary point and before its first 1 bit
RECURSIVE LeadingZeros(_, _)
LeadingZeros(r, b) == IF 2 * r >= b THEN 0 ELSE 1 + LeadingZeros(2 * r, b)

\* 2^k modulo b, by squaring
RECURSIVE PowMod(_, _)
PowMod(k, b) ==
    IF k = 0 THEN 1 % b
    ELSE IF k % 2 = 0 THEN LET h == PowMod(k \div 2, b) IN (h * h) % b
    ELSE (2 * PowMod(k - 1, b)) % b

\* what is left of r after n bits of r/b, and the first n bits of r/b
Remainder(r, b, n) == (r * PowMod(n, b)) % b

QuotientBits(r, b, n) == [i \in 1..n |-> (2 * Remainder(r, b, i - 1)) \div b]

\* a / b for integers 0 < a < b
FloatDiv(a, b) ==
    LET z == LeadingZeros(a, b)
        r == a * Pow2(z)
        bits == QuotientBits(r, b, MantissaBits)
        rest == Remainder(r, b, MantissaBits)
        up == 2 * rest > b \/ (2 * rest = b /\ bits[MantissaBits] = 1) IN
    [m |-> IF up THEN Inc(bits) ELSE bits, e |-> z + MantissaBits]

\* the n as width bits
FixedBits(n, width) == [i \in 1..width |-> (n \div Pow2(width - i)) % 2]

\* the bits in groups of 13 from the last bit, each group read as an integer
Limbs(bits) ==
    LET count == (Len(bits) + 12) \div 13
        padded == [i \in 1..(13 * count - Len(bits)) |-> 0] \o bits IN
    [k \in 1..count |-> BitsToInt(SubSeq(padded, 13 * (k - 1) + 1, 13 * k))]

\* limbs * x, from the last group to the first with a carry
RECURSIVE MulLimbs(_, _, _)
MulLimbs(limbs, x, carry) ==
    IF limbs = <<>> THEN IntToBits(carry)
    ELSE LET t == limbs[Len(limbs)] * x + carry IN
         MulLimbs(SubSeq(limbs, 1, Len(limbs) - 1), x, t \div 8192) \o FixedBits(t % 8192, 13)

\* bits * x for an integer 1 <= x < 2^15
MulBits(bits, x) == MulLimbs(Limbs(bits), x, 0)

\* x * f for an integer x >= 1
FloatMul(x, f) ==
    LET n == StripZeros(MulBits(f.m, x))
        d == Len(n) - MantissaBits IN
    IF d <= 0 THEN [m |-> n, e |-> f.e]
    ELSE LET kept == SubSeq(n, 1, MantissaBits)
             dropped == SubSeq(n, MantissaBits + 1, Len(n))
             tie == dropped[1] = 1 /\ \A i \in 2..d : dropped[i] = 0
             up == dropped[1] = 1 /\ (~tie \/ kept[MantissaBits] = 1) IN
         [m |-> (IF up THEN Inc(kept) ELSE kept) \o [i \in 1..d |-> 0], e |-> f.e]

\* int(f) for f >= 0
Trunc(f) ==
    IF Len(f.m) <= f.e THEN 0 ELSE BitsToInt(SubSeq(f.m, 1, Len(f.m) - f.e))

Max(a, b) == IF a >= b THEN a ELSE b

\* cv2.resize(image, (new_w, new_h)): the shape of the result; a size with a
\* side of 0 raises cv2.error
Resize(new_h, new_w) ==
    [h |-> new_h, w |-> new_w, raised |-> new_h = 0 \/ new_w = 0]

\* image_processing/processor.py, _resize_if_needed
RouterResizeIfNeeded(h, w, max_size) ==
    IF Max(h, w) > max_size
    THEN LET scale == FloatDiv(max_size, Max(h, w)) IN
         Resize(Trunc(FloatMul(h, scale)), Trunc(FloatMul(w, scale)))
    ELSE [h |-> h, w |-> w, raised |-> FALSE]

\* services/image_processing.py, resize_if_needed
ServiceResizeIfNeeded(h, w, max_dimension) ==
    IF Max(h, w) <= max_dimension THEN [h |-> h, w |-> w, raised |-> FALSE]
    ELSE IF h > w
    THEN Resize(max_dimension, Trunc(FloatMul(w, FloatDiv(max_dimension, h))))
    ELSE Resize(Trunc(FloatMul(h, FloatDiv(max_dimension, w))), max_dimension)

\* an image of h by w pixels is about to be resized under a cap
InitResize ==
    /\ impl \in {"router", "service"}
    /\ jobs = <<>>
    /\ files = {}
    /\ nAttempts = 0
    /\ nRefs = 0
    /\ pc = [p \in Procs |-> "idle"]
    /\ pjob = [p \in Procs |-> 0]
    /\ pseen = [p \in Procs |-> "none"]
    /\ pstyle = [p \in Procs |-> NoStyle]
    /\ pres = [p \in Procs |-> NoResultYet]
    /\ event = Quiet
    /\ payments = <<>>
    /\ users = <<>>
    /\ req = [p \in Procs |-> NoRequest]
    /\ \E h \in 1..MaxDim, w \in 1..MaxDim, cap \in 1..MaxCap :
          call = [fn |-> "resize_if_needed", args |-> <<h, w, cap>>, ret |-> <<>>,
                  done |-> FALSE]

ApplyRouterResizeIfNeeded ==
    /\ impl = "router"
    /\ call.fn = "resize_if_needed" /\ ~call.done
    /\ Return(RouterResizeIfNeeded(call.args[1], call.args[2], call.args[3]))

ApplyServiceResizeIfNeeded ==
    /\ impl = "service"
    /\ call.fn = "resize_if_needed" /\ ~call.done
    /\ Return(ServiceResizeIfNeeded(call.args[1], call.args[2], call.args[3]))

NextResize ==
    \/ ApplyRouterResizeIfNeeded
    \/ ApplyServiceResizeIfNeeded

SpecResize == InitResize /\ [][NextResize]_vars

(* ---------- colour dodge of the pencil sketch ---------- *)
\* the values of a uint8 pixel
Bytes == 0..255

\* np.clip(x, 0, 255) and saturate_cast<uchar> on a value that is not negative
Saturate(x) == IF x > 255 THEN 255 ELSE x

\* cvRound of n / d: to nearest, a tie to the even neighbour
RoundHalfEven(n, d) ==
    LET q == n \div d
        r == n % d IN
    IF 2 * r > d \/ (2 * r = d /\ q % 2 = 1) THEN q + 1 ELSE q

\* image_processing/processor.py, _dodge_blend on one pixel: a divisor of 0
\* becomes 1, the quotient is clipped and astype(np.uint8) drops its fraction
\* (the float32 quotient of two integers below 2^16 has the integer part of
\* the exact quotient)
RouterDodgeBlend(base, blend) ==
    LET blend_inv == IF 255 - blend = 0 THEN 1 ELSE 255 - blend IN
    Saturate((base * 255) \div blend_inv)

\* services/image_processing.py, pencil_sketch_effect line 153 on one pixel:
\* cv2.divide(gray, 255 - blurred, scale=256) gives 0 where the divisor is 0
\* and the rounded, saturated gray * 256 / divisor elsewhere
ServiceDivide(gray, blurred) ==
    IF 255 - blurred = 0 THEN 0
    ELSE Saturate(RoundHalfEven(gray * 256, 255 - blurred))

\* a pixel of the grayscale image and of its blurred inverse is about to be
\* blended
InitBlend ==
    /\ impl \in {"router", "service"}
    /\ jobs = <<>>
    /\ files = {}
    /\ nAttempts = 0
    /\ nRefs = 0
    /\ pc = [p \in Procs |-> "idle"]
    /\ pjob = [p \in Procs |-> 0]
    /\ pseen = [p \in Procs |-> "none"]
    /\ pstyle = [p \in Procs |-> NoStyle]
    /\ pres = [p \in Procs |-> NoResultYet]
    /\ event = Quiet
    /\ payments = <<>>
    /\ users = <<>>
    /\ req = [p \in Procs |-> NoRequest]
    /\ \E g \in Bytes, b \in Bytes :
          call = [fn |-> "dodge_blend", args |-> <<g, b>>, ret |-> <<>>, done |-> FALSE]

ApplyRouterDodgeBlend ==
    /\ impl = "router"
    /\ call.fn = "dodge_blend" /\ ~call.done
    /\ Return(<<RouterDodgeBlend(call.args[1], call.args[2])>>)

ApplyServiceDivide ==
    /\ impl = "service"
    /\ call.fn = "dodge_blend" /\ ~call.done
    /\ Return(<<ServiceDivide(call.args[1], call.args[2])>>)

NextBlend ==
    \/ ApplyRouterDodgeBlend
    \/ ApplyServiceDivide

SpecBlend == InitBlend /\ [][NextBlend]_vars

(* ---------- what the claims speak of ---------- *)
\* a process that has written PROCESSING and has not yet finished its attempt
InFlight(p) == pc[p] \in {"scheduled", "loaded", "ran", "flushed"}

\* a step in which process p ends its attempt
EndsAttempt(p) == InFlight(p) /\ pc'[p] = "idle"

\* the keys of the deployed processor's style_methods
DefinedStyles == IF impl = "router" THEN RouterStyleMethods ELSE ServiceStyleMethods

\* the file a row's output reference names
ArtifactPath(n) == IF impl = "router" THEN <<"processed", n>> ELSE <<"output", n>>

Contains(msg, s) == Len(msg) = 2 /\ msg[2] = s

IsReadError(msg) ==
    Len(msg) = 2 /\ msg[1] \in {"Could not read image", "Could not load image from"}

AllowedTransitions ==
    {<<"QUEUED", "PROCESSING">>, <<"DONE", "PROCESSING">>, <<"FAILED", "PROCESSING">>,
     <<"PROCESSING", "DONE">>, <<"PROCESSING", "FAILED">>}

(* ---------- reading and deleting jobs ---------- *)
\* ids of the users table
Users == 1..NumUsers

\* the one process whose attempts run next to the requests below
StoreProcs == {1}

\* the files a row names: original, processed or output, comparison
RowPaths(job, j) ==
    <<OriginalPath(j)>>
        \o (IF job.output # NoOutput THEN <<ArtifactPath(job.output)>> ELSE <<>>)
        \o (IF job.comparison # NoOutput THEN <<<<"comparison", job.comparison>>>> ELSE <<>>)

\* those of them that os.path.exists finds, in the order delete_job removes them
PresentPaths(job, j) == SelectSeq(RowPaths(job, j), LAMBDA f : f \in files)

Range(seq) == {seq[i] : i \in DOMAIN seq}

\* db.delete(job): the row is gone and nothing of it is left
DeletedJob(job) == [NewJob(0, NoStyle) EXCEPT !.status = "DELETED"]

\* a request to process job j that user u sends in this specification: the
\* owner asks once, for a job that was not processed yet; anyone else may ask
\* at any time
AsksToProcess(u, j) == GetJobById(j, u) # 0 => jobs[j].status = "QUEUED"

\* what a delete can meet: nothing, an os.remove that raises after the files
\* before it were removed, a commit or flush that raises after all were
DeleteOutcomes == {"ok", "remove_raises", "db_raises"}

\* the file_type of GET /images/file/{job_id}/{file_type}
FileTypes == {"original", "processed", "thumbnail"}

\* services/image_job.py get_job_by_id called with any user_id an int can be
ServiceGetJobById(u, j) ==
    /\ impl = "service"
    /\ event' = Ev("get_job_by_id", u, j, IF GetJobById(j, u) = 0 THEN "not_found" ELSE "job")
    /\ UNCHANGED <<users, req, payments, call, impl, jobs, files, nAttempts, nRefs, pc, pjob, pseen, pstyle, pres>>

\* routers/images.py get_image_job
GetImageJob(u, j) ==
    /\ impl = "router"
    /\ event' = Ev("get_image_job", u, j, IF GetJobById(j, u) = 0 THEN "not_found" ELSE "job")
    /\ UNCHANGED <<users, req, payments, call, impl, jobs, files, nAttempts, nRefs, pc, pjob, pseen, pstyle, pres>>

\* routers/images.py get_image_file; hd is the query parameter the client
\* sends, which the handler does not declare
GetImageFile(u, j, file_type, hd) ==
    /\ impl = "router"
    /\ LET path == CASE file_type = "original" -> <<OriginalPath(j)>>
                     [] file_type = "processed" /\ GetJobById(j, u) # 0
                            /\ jobs[j].output # NoOutput -> <<ArtifactPath(jobs[j].output)>>
                     [] OTHER -> <<>> IN
       event' = FileEv("get_image_file", u, j, file_type, hd,
                    IF GetJobById(j, u) = 0 THEN "not_found"
                    ELSE IF file_type \notin {"original", "processed", "comparison"}
                    THEN "bad_request"
                    ELSE IF path = <<>> \/ path[1] \notin files THEN "file_not_found"
                    ELSE "file")
    /\ UNCHANGED <<users, req, payments, call, impl, jobs, files, nAttempts, nRefs, pc, pjob, pseen, pstyle, pres>>

\* routers/images.py download_processed_image with increment_download_count
DownloadProcessedImage(u, j, hd) ==
    /\ impl = "router"
    /\ IF GetJobById(j, u) = 0
       THEN /\ event' = FileEv("download_processed_image", u, j, "processed", hd, "not_found")
            /\ UNCHANGED jobs
       ELSE IF jobs[j].status # "DONE"
       THEN /\ event' = FileEv("download_processed_image", u, j, "processed", hd, "bad_request")
            /\ UNCHANGED jobs
       ELSE IF jobs[j].output = NoOutput \/ ArtifactPath(jobs[j].output) \notin files
       THEN /\ event' = FileEv("download_processed_image", u, j, "processed", hd, "file_not_found")
            /\ UNCHANGED jobs
       ELSE /\ jobs[j].downloads < MaxDownloads
            /\ jobs' = [jobs EXCEPT ![j].downloads = @ + 1]
            /\ event' = FileEv("download_processed_image", u, j, "processed", hd, "file")
    /\ UNCHANGED <<users, req, payments, call, impl, files, nAttempts, nRefs, pc, pjob, pseen, pstyle, pres>>

\* delete_job of both services on the row j: os.remove of each file that
\* exists, then db.delete and commit (router) or flush (service)
DeleteJob(j, outcome) ==
    LET present == PresentPaths(jobs[j], j) IN
    CASE outcome = "ok" ->
            /\ files' = files \ Range(present)
            /\ jobs' = [jobs EXCEPT ![j] = DeletedJob(@)]
      [] outcome = "remove_raises" ->
            /\ present # <<>>
            /\ files' = files \ Range(SubSeq(present, 1, Len(present) - 1))
            /\ jobs' = jobs
      [] OTHER ->
            /\ files' = files \ Range(present)
            /\ jobs' = jobs

\* routers/images.py delete_image_job; a request that arrives while an
\* attempt on the job is under way is left out
DeleteImageJob(u, j, outcome) ==
    /\ impl = "router"
    /\ IF GetJobById(j, u) = 0
       THEN /\ event' = Ev("delete_job", u, j, "not_found")
            /\ UNCHANGED <<jobs, files>>
       ELSE /\ \A p \in Procs : pjob[p] # j
            /\ DeleteJob(j, outcome)
            /\ event' = Ev("delete_job", u, j, IF outcome = "ok" THEN "deleted" ELSE "error")
    /\ UNCHANGED <<users, req, payments, call, impl, nAttempts, nRefs, pc, pjob, pseen, pstyle, pres>>

\* services/image_job.py get_job_by_id for the user, then delete_job, which
\* logs an exception and returns False
ServiceDeleteJob(u, j, outcome) ==
    /\ impl = "service"
    /\ IF GetJobById(j, u) = 0
       THEN /\ event' = Ev("delete_job", u, j, "not_found")
            /\ UNCHANGED <<jobs, files>>
       ELSE /\ \A p \in Procs : pjob[p] # j
            /\ DeleteJob(j, outcome)
            /\ event' = Ev("delete_job", u, j, IF outcome = "ok" THEN "deleted" ELSE "false")
    /\ UNCHANGED <<users, req, payments, call, impl, nAttempts, nRefs, pc, pjob, pseen, pstyle, pres>>

NextStore ==
    \/ \E u \in Users : UploadImage(u, "cartoon")
    \/ \E u \in Users : CreateJob(u, "cartoon")
    \/ \E u \in Users, p \in StoreProcs, j \in 1..MaxJobs :
          AsksToProcess(u, j) /\ ProcessImageLoad(u, p, j, NoStyle)
    \/ \E p \in StoreProcs : ProcessImageCommit(p)
    \/ \E p \in StoreProcs : TaskLoad(p, TRUE)
    \/ \E p \in StoreProcs : TaskRun(p, "ok")
    \/ \E p \in StoreProcs : TaskCommit(p, "ok")
    \/ \E p \in StoreProcs, j \in 1..MaxJobs :
          AsksToProcess(0, j) /\ ProcessJobBegin(p, j)
    \/ \E p \in StoreProcs : ProcessJobRun(p, "ok")
    \/ \E u \in 0..NumUsers, j \in 1..MaxJobs : ServiceGetJobById(u, j)
    \/ \E u \in Users, j \in 1..MaxJobs : GetImageJob(u, j)
    \/ \E u \in Users, j \in 1..MaxJobs, t \in FileTypes, hd \in BOOLEAN : GetImageFile(u, j, t, hd)
    \/ \E u \in Users, j \in 1..MaxJobs, hd \in BOOLEAN : DownloadProcessedImage(u, j, hd)
    \/ \E u \in Users, j \in 1..MaxJobs, o \in DeleteOutcomes : DeleteImageJob(u, j, o)
    \/ \E u \in Users, j \in 1..MaxJobs, o \in DeleteOutcomes : ServiceDeleteJob(u, j, o)

SpecStore == Init /\ [][NextStore]_vars

(* ---------- payments (services/payments.py, routers/payments.py) ---------- *)
NoRef == "none"

\* gateway references a client or the gateway sends
GatewayRefs == {"pi_a", "pi_b"}

\* status and event_type of a webhook payload
WebhookStatuses == {"succeeded", "failed", "unknown"}

WebhookEvents == {"payment_intent.succeeded", "payment_intent.payment_failed"}

PaymentIds == 1..Len(payments)

NewPayment(u, j) == [user |-> u, job |-> j, status |-> "PENDING", ref |-> NoRef]

\* status_map.get(status_str) or status_map.get(event_type)
StatusMap(key) ==
    CASE key \in {"succeeded", "payment_intent.succeeded"} -> "SUCCESS"
      [] key \in {"failed", "payment_intent.payment_failed"} -> "FAILED"
      [] OTHER -> "none"

NewStatus(event_type, status_str) ==
    IF StatusMap(status_str) # "none" THEN StatusMap(status_str) ELSE StatusMap(event_type)

\* a job row after a payment for it succeeded
UnlockedJob(job) == [job EXCEPT !.hd = "Y"]

\* the payments of job j that are PENDING
PendingPayments(j) ==
    {k \in PaymentIds : payments[k].job = j /\ payments[k].status = "PENDING"}

\* a creation that looks at the owner and at pending payments but not at the
\* HD flag
CreatePaymentIntentCheckNoHd(p, u, j) ==
    /\ req[p] = NoRequest
    /\ IF ~(j \in JobIds /\ jobs[j].user = u)
       THEN /\ event' = Ev("create_payment", u, j, "not_found")
            /\ UNCHANGED req
       ELSE IF Cardinality(PendingPayments(j)) > 1
       THEN /\ event' = Ev("create_payment", u, j, "error")
            /\ UNCHANGED req
       ELSE IF PendingPayments(j) # {}
       THEN /\ event' = Ev("create_payment", u, j, "existing")
            /\ UNCHANGED req
       ELSE /\ Len(payments) < MaxPayments
            /\ req' = [req EXCEPT ![p] = [op |-> "create_payment", user |-> u, job |-> j]]
            /\ event' = Quiet
    /\ UNCHANGED <<users, payments, call, impl, jobs, files, nAttempts, nRefs, pc, pjob,
                   pseen, pstyle, pres>>

\* POST /payments/create and create_payment_intent lines 38-74: the job of
\* the user, the HD flag and the pending payment of the job are looked up;
\* scalar_one_or_none raises when two payments are pending
CreatePaymentIntentCheck(p, u, j) ==
    /\ req[p] = NoRequest
    /\ IF ~(j \in JobIds /\ jobs[j].user = u)
       THEN /\ event' = Ev("create_payment", u, j, "not_found")
            /\ UNCHANGED req
       ELSE IF jobs[j].hd = "Y"
       THEN /\ event' = Ev("create_payment", u, j, "already_unlocked")
            /\ UNCHANGED req
       ELSE IF Cardinality(PendingPayments(j)) > 1
       THEN /\ event' = Ev("create_payment", u, j, "error")
            /\ UNCHANGED req
       ELSE IF PendingPayments(j) # {}
       THEN /\ event' = Ev("create_payment", u, j, "existing")
            /\ UNCHANGED req
       ELSE /\ Len(payments) < MaxPayments
            /\ req' = [req EXCEPT ![p] = [op |-> "create_payment", user |-> u, job |-> j]]
            /\ event' = Quiet
    /\ UNCHANGED <<users, payments, call, impl, jobs, files, nAttempts, nRefs, pc, pjob,
                   pseen, pstyle, pres>>

\* create_payment_intent lines 76-99: the row is added and flushed; nothing
\* in the table keeps a second pending payment of the job out
CreatePaymentIntentInsert(p) ==
    /\ req[p].op = "create_payment"
    /\ Len(payments) < MaxPayments
    /\ payments' = Append(payments, NewPayment(req[p].user, req[p].job))
    /\ event' = Ev("create_payment", req[p].user, req[p].job, "created")
    /\ req' = [req EXCEPT ![p] = NoRequest]
    /\ UNCHANGED <<users, call, impl, jobs, files, nAttempts, nRefs, pc, pjob, pseen,
                   pstyle, pres>>

\* a webhook that locks the job again when the gateway reports a failure
HandleWebhookRelock(event_type, gateway_reference, status_str) ==
    LET found == {k \in PaymentIds : payments[k].ref = gateway_reference}
        new_status == NewStatus(event_type, status_str) IN
    /\ IF found = {}
       THEN /\ event' = Ev("webhook", 0, 0, "ignored")
            /\ UNCHANGED <<payments, jobs>>
       ELSE IF Cardinality(found) > 1
       THEN /\ event' = Ev("webhook", 0, 0, "error")
            /\ UNCHANGED <<payments, jobs>>
       ELSE LET k == CHOOSE x \in found : TRUE
                j == payments[k].job IN
            /\ event' = Ev("webhook", 0, k, "processed")
            /\ payments' = IF new_status # "none"
                           THEN [payments EXCEPT ![k].status = new_status]
                           ELSE payments
            /\ jobs' = IF new_status = "SUCCESS" /\ j \in JobIds
                       THEN [jobs EXCEPT ![j] = UnlockedJob(@)]
                       ELSE IF new_status = "FAILED" /\ j \in JobIds
                       THEN [jobs EXCEPT ![j].hd = "N"]
                       ELSE jobs
    /\ UNCHANGED <<users, req, call, impl, files, nAttempts, nRefs, pc, pjob, pseen, pstyle, pres>>

\* POST /payments/webhook and handle_webhook: scalar_one_or_none raises when
\* two payments carry the reference
HandleWebhook(event_type, gateway_reference, status_str) ==
    LET found == {k \in PaymentIds : payments[k].ref = gateway_reference}
        new_status == NewStatus(event_type, status_str) IN
    /\ IF found = {}
       THEN /\ event' = Ev("webhook", 0, 0, "ignored")
            /\ UNCHANGED <<payments, jobs>>
       ELSE IF Cardinality(found) > 1
       THEN /\ event' = Ev("webhook", 0, 0, "error")
            /\ UNCHANGED <<payments, jobs>>
       ELSE LET k == CHOOSE x \in found : TRUE
                j == payments[k].job IN
            /\ event' = Ev("webhook", 0, k, "processed")
            /\ payments' = IF new_status # "none"
                           THEN [payments EXCEPT ![k].status = new_status]
                           ELSE payments
            /\ jobs' = IF new_status = "SUCCESS" /\ j \in JobIds
                       THEN [jobs EXCEPT ![j] = UnlockedJob(@)]
                       ELSE jobs
    /\ UNCHANGED <<users, req, call, impl, files, nAttempts, nRefs, pc, pjob, pseen, pstyle, pres>>

\* a confirmation that does not look at the status of the payment
ConfirmPaymentAnyStatus(u, k, gateway_reference, success) ==
    /\ IF k \notin PaymentIds
       THEN /\ event' = Ev("confirm_payment", u, k, "not_found")
            /\ UNCHANGED <<payments, jobs>>
       ELSE IF payments[k].user # u
       THEN /\ event' = Ev("confirm_payment", u, k, "forbidden")
            /\ UNCHANGED <<payments, jobs>>
       ELSE /\ event' = Ev("confirm_payment", u, k, "confirmed")
            /\ payments' = [payments EXCEPT ![k].ref = gateway_reference,
                                            ![k].status = IF success THEN "SUCCESS" ELSE "FAILED"]
            /\ jobs' = IF success /\ payments[k].job \in JobIds
                       THEN [jobs EXCEPT ![payments[k].job] = UnlockedJob(@)]
                       ELSE jobs
    /\ UNCHANGED <<users, req, call, impl, files, nAttempts, nRefs, pc, pjob, pseen, pstyle, pres>>

\* POST /payments/confirm (which passes success=True) and confirm_payment
\* (which also takes success=False)
ConfirmPayment(u, k, gateway_reference, success) ==
    /\ IF k \notin PaymentIds
       THEN /\ event' = Ev("confirm_payment", u, k, "not_found")
            /\ UNCHANGED <<payments, jobs>>
       ELSE IF payments[k].user # u
       THEN /\ event' = Ev("confirm_payment", u, k, "forbidden")
            /\ UNCHANGED <<payments, jobs>>
       ELSE IF payments[k].status # "PENDING"
       THEN /\ event' = Ev("confirm_payment", u, k, "already_processed")
            /\ UNCHANGED <<payments, jobs>>
       ELSE /\ event' = Ev("confirm_payment", u, k, "confirmed")
            /\ payments' = [payments EXCEPT ![k].ref = gateway_reference,
                                            ![k].status = IF success THEN "SUCCESS" ELSE "FAILED"]
            /\ jobs' = IF success /\ payments[k].job \in JobIds
                       THEN [jobs EXCEPT ![payments[k].job] = UnlockedJob(@)]
                       ELSE jobs
    /\ UNCHANGED <<users, req, call, impl, files, nAttempts, nRefs, pc, pjob, pseen, pstyle, pres>>

\* the first user has uploaded one image
InitPay ==
    /\ impl \in {"router", "service"}
    /\ jobs = <<UploadedJob(FirstUser, "cartoon", 1, UploadName)>>
    /\ files = {OriginalPath(1)}
    /\ nAttempts = 0
    /\ nRefs = 0
    /\ pc = [p \in Procs |-> "idle"]
    /\ pjob = [p \in Procs |-> 0]
    /\ pseen = [p \in Procs |-> "none"]
    /\ pstyle = [p \in Procs |-> NoStyle]
    /\ pres = [p \in Procs |-> NoResultYet]
    /\ event = Quiet
    /\ payments = <<>>
    /\ call = NoCall
    /\ users = <<>>
    /\ req = [p \in Procs |-> NoRequest]

NextPay ==
    \/ \E p \in StoreProcs : ProcessImageLoad(FirstUser, p, 1, NoStyle)
    \/ \E p \in StoreProcs : ProcessImageCommit(p)
    \/ \E p \in StoreProcs : TaskLoad(p, TRUE)
    \/ \E p \in StoreProcs : TaskRun(p, "ok")
    \/ \E p \in StoreProcs : TaskCommit(p, "ok")
    \/ \E p \in StoreProcs : ProcessJobBegin(p, 1)
    \/ \E p \in StoreProcs : ProcessJobRun(p, "ok")
    \/ \E p \in RequestProcs, u \in Users, j \in 1..2 : CreatePaymentIntentCheck(p, u, j)
    \/ \E p \in RequestProcs : CreatePaymentIntentInsert(p)
    \/ \E u \in Users, k \in 1..MaxPayments, r \in GatewayRefs, ok \in BOOLEAN :
          ConfirmPayment(u, k, r, ok)
    \/ \E e \in WebhookEvents, r \in GatewayRefs, t \in WebhookStatuses : HandleWebhook(e, r, t)

SpecPay == InitPay /\ [][NextPay]_vars

(* ---------- posterize step of pop_art_effect (services/image_processing.py) ---------- *)
\* the values num_colors is asked to take
Levels == 1..256

\* 256 // num_colors
Div(num_colors) == 256 \div num_colors

\* (boosted // div) * div + div // 2 on one uint8 channel value: while div
\* fits uint8 every operation yields uint8 and wraps; div = 256 does not fit,
\* and the operations are then carried out in a wider type
Posterize(v, num_colors) ==
    LET div == Div(num_colors) IN
    IF div > 255
    THEN ((v \div div) * div) + (div \div 2)
    ELSE (((((v \div div) % 256) * div) % 256) + (div \div 2)) % 256

\* what pop_art_effect returns for every channel value, or the exception it
\* raises
Posterized(num_colors) ==
    [raised |-> FALSE, out |-> [v \in Bytes |-> Posterize(v, num_colors)]]

PosterizeRaises == [raised |-> TRUE, out |-> [v \in Bytes |-> 0]]

InitPosterize ==
    /\ impl = "service"
    /\ jobs = <<>>
    /\ files = {}
    /\ nAttempts = 0
    /\ nRefs = 0
    /\ pc = [p \in Procs |-> "idle"]
    /\ pjob = [p \in Procs |-> 0]
    /\ pseen = [p \in Procs |-> "none"]
    /\ pstyle = [p \in Procs |-> NoStyle]
    /\ pres = [p \in Procs |-> NoResultYet]
    /\ event = Quiet
    /\ payments = <<>>
    /\ users = <<>>
    /\ req = [p \in Procs |-> NoRequest]
    /\ \E n \in Levels :
          call = [fn |-> "pop_art_effect", args |-> <<n>>, ret |-> <<>>, done |-> FALSE]

\* uint8 // 256 is carried out in a wider type by the array library's older
\* releases and raises OverflowError in its newer ones
ApplyPopArtEffect ==
    /\ call.fn = "pop_art_effect" /\ ~call.done
    /\ \/ Return(<<Posterized(call.args[1])>>)
       \/ Div(call.args[1]) > 255 /\ Return(<<PosterizeRaises>>)

NextPosterize == ApplyPopArtEffect

SpecPosterize == InitPosterize /\ [][NextPosterize]_vars

(* ---------- uploads that are turned away ---------- *)
\* why an upload is turned away: the content type is not image/* (router
\* only), the extension is not allowed, the content is larger than the limit
UploadReasons == {"content_type", "extension", "size"}

\* the files that turned-away uploads left behind
Leftovers == {f \in files : f[1] = "leftover"}

\* the destination of the upload, named by a fresh uuid4
LeftoverPath == <<"leftover", Cardinality(Leftovers) + 1>>

\* save_uploaded_file / save_upload_file up to the exception: the extension
\* is checked before the destination is opened, the size after open(..., 'wb')
\* has created it
SaveRejected(why) ==
    IF why = "size"
    THEN /\ Cardinality(Leftovers) < MaxLeftovers
         /\ files' = files \cup {LeftoverPath}
    ELSE files' = files

\* routers/images.py upload_image when the file is turned away: create_image_job
\* is not reached
UploadImageRejected(u, why) ==
    /\ impl = "router"
    /\ IF why = "content_type" THEN files' = files ELSE SaveRejected(why)
    /\ event' = Ev("upload", u, 0, why)
    /\ UNCHANGED <<users, req, payments, call, impl, jobs, nAttempts, nRefs, pc, pjob, pseen,
                   pstyle, pres>>

\* services/image_job.py save_upload_file when the file is turned away:
\* create_job is not reached
SaveUploadFileRejected(u, why) ==
    /\ impl = "service"
    /\ why # "content_type"
    /\ SaveRejected(why)
    /\ event' = Ev("upload", u, 0, why)
    /\ UNCHANGED <<users, req, payments, call, impl, jobs, nAttempts, nRefs, pc, pjob, pseen,
                   pstyle, pres>>

NextUpload ==
    \/ \E u \in Users, st \in StyleIds : UploadImage(u, st)
    \/ \E u \in Users, st \in StyleIds : CreateJob(u, st)
    \/ \E u \in Users, why \in UploadReasons : UploadImageRejected(u, why)
    \/ \E u \in Users, why \in UploadReasons : SaveUploadFileRejected(u, why)

SpecUpload == Init /\ [][NextUpload]_vars

(* ---------- registration (services/auth_service.py, services/auth.py) ---------- *)
\* what a client can send
Emails == {"a@example.com", "b@example.com"}

Usernames == {"ann", "bob"}

\* register_user has no username
NoUsername == "none"

NewUser(email, username) == [email |-> email, username |-> username]

UserIds == 1..Len(users)

GetUserByEmail(email) == {i \in UserIds : users[i].email = email}

GetUserByUsername(username) == {i \in UserIds : users[i].username = username}

\* the answer of a registration for email
RegisterEv(email, result) == [op |-> "register", email |-> email, result |-> result]

\* create_user lines 39-51 and register_user lines 84-90: the checks before
\* the row is built
RegisterCheck(p, email, username) ==
    /\ req[p] = NoRequest
    /\ IF GetUserByEmail(email) # {}
       THEN /\ event' = RegisterEv(email, "already_registered")
            /\ UNCHANGED req
       ELSE IF impl = "router" /\ GetUserByUsername(username) # {}
       THEN /\ event' = RegisterEv(email, "username_taken")
            /\ UNCHANGED req
       ELSE /\ req' = [req EXCEPT ![p] =
                          [op |-> "register", email |-> email,
                           username |-> IF impl = "router" THEN username ELSE NoUsername]]
            /\ event' = Quiet
    /\ UNCHANGED <<users, payments, call, impl, jobs, files, nAttempts, nRefs, pc, pjob,
                   pseen, pstyle, pres>>

\* an insert into a users table without the unique index on email
RegisterInsertNoConstraint(p) ==
    /\ req[p].op = "register"
    /\ Len(users) < NumUsers
    /\ users' = Append(users, NewUser(req[p].email, req[p].username))
    /\ event' = RegisterEv(req[p].email, "created")
    /\ req' = [req EXCEPT ![p] = NoRequest]
    /\ UNCHANGED <<payments, call, impl, jobs, files, nAttempts, nRefs, pc, pjob,
                   pseen, pstyle, pres>>

\* create_user lines 53-64 and register_user lines 92-101: db.add and commit
\* or flush; users.email is unique, so the insert of an email that another
\* request has inserted since the check raises IntegrityError
RegisterInsert(p) ==
    /\ req[p].op = "register"
    /\ IF GetUserByEmail(req[p].email) # {}
       THEN /\ event' = RegisterEv(req[p].email, "integrity_error")
            /\ UNCHANGED users
       ELSE /\ Len(users) < NumUsers
            /\ users' = Append(users, NewUser(req[p].email, req[p].username))
            /\ event' = RegisterEv(req[p].email, "created")
    /\ req' = [req EXCEPT ![p] = NoRequest]
    /\ UNCHANGED <<payments, call, impl, jobs, files, nAttempts, nRefs, pc, pjob,
                   pseen, pstyle, pres>>

NextRegister ==
    \/ \E p \in RequestProcs, e \in Emails, n \in Usernames : RegisterCheck(p, e, n)
    \/ \E p \in RequestProcs : RegisterInsert(p)

SpecRegister == Init /\ [][NextRegister]_vars

(* ---------- two jobs, processing and a payment ---------- *)
\* the first user has uploaded two images and asked to pay for the first
InitFrame ==
    /\ impl \in {"router", "service"}
    /\ jobs = <<UploadedJob(FirstUser, "nonexistent", 1, "a.png"),
                UploadedJob(FirstUser, "cartoon", 2, "b.png")>>
    /\ files = {OriginalPath(1), OriginalPath(2)}
    /\ nAttempts = 0
    /\ nRefs = 0
    /\ pc = [p \in Procs |-> "idle"]
    /\ pjob = [p \in Procs |-> 0]
    /\ pseen = [p \in Procs |-> "none"]
    /\ pstyle = [p \in Procs |-> NoStyle]
    /\ pres = [p \in Procs |-> NoResultYet]
    /\ event = Quiet
    /\ payments = <<NewPayment(FirstUser, 1)>>
    /\ call = NoCall
    /\ users = <<>>
    /\ req = [p \in Procs |-> NoRequest]

\* what the pipeline does in a run of this specification
FrameOutcomes == {"ok", "effect_raise"}

NextFrame ==
    \/ \E p \in StoreProcs, j \in 1..2, st \in RequestStyles :
          ProcessImageLoad(FirstUser, p, j, st)
    \/ \E p \in StoreProcs : ProcessImageCommit(p)
    \/ \E p \in StoreProcs : TaskLoad(p, TRUE)
    \/ \E p \in StoreProcs, o \in FrameOutcomes : TaskRun(p, o)
    \/ \E p \in StoreProcs : TaskCommit(p, "ok")
    \/ \E p \in StoreProcs, j \in 1..2 : ProcessJobBegin(p, j)
    \/ \E p \in StoreProcs, o \in FrameOutcomes : ProcessJobRun(p, o)
    \/ \E r \in GatewayRefs, ok \in BOOLEAN : ConfirmPayment(FirstUser, 1, r, ok)
    \/ \E e \in WebhookEvents, r \in GatewayRefs, t \in WebhookStatuses : HandleWebhook(e, r, t)

SpecFrame == InitFrame /\ [][NextFrame]_vars

(* ---------- claims ---------- *)

\* C1: for every job at most one process at a time has made the transition
\* into PROCESSING and is running the pipeline; the check of the status and
\* the write of PROCESSING act as one atomic step.
C1_AtMostOneInFlight ==
    \A j \in JobIds : Cardinality({p \in Procs : InFlight(p) /\ pjob[p] = j}) <= 1

\* C2 as stated: in every reachable state the output reference of a job is
\* non-null exactly when its status is DONE.
C2_OutputIffDone ==
    \A j \in JobIds : (jobs[j].output # NoOutput) <=> (jobs[j].status = "DONE")

\* C2 as amended: a job whose status is DONE has a non-null output reference
\* and a job whose status is QUEUED has none; a job that is PROCESSING or
\* FAILED may still carry the reference of its last completed attempt.
C2_DoneHasOutput ==
    \A j \in JobIds :
        /\ jobs[j].status = "DONE" => jobs[j].output # NoOutput
        /\ jobs[j].status = "QUEUED" => jobs[j].output = NoOutput

\* a job completed by a later attempt, after an attempt that failed
C2_Witness ==
    \E j \in JobIds :
        /\ jobs[j].status = "DONE"
        /\ jobs[j].output # NoOutput
        /\ jobs[j].error # NoError

\* C3: in every reachable state the error message of a job is non-null
\* exactly when its status is FAILED.
C3_ErrorIffFailed ==
    \A j \in JobIds : (jobs[j].error # NoError) <=> (jobs[j].status = "FAILED")

\* C4: an attempt that ends in FAILED leaves the output reference and the
\* stored artifacts as they were, and the output reference is only replaced
\* by a reference to an artifact that has been produced.
C4_NoDestructiveUpdate ==
    [][/\ \A p \in Procs :
            (EndsAttempt(p) /\ jobs'[pjob[p]].status = "FAILED")
                => /\ jobs'[pjob[p]].output = jobs[pjob[p]].output
                   /\ files' = files
       /\ \A j \in JobIds :
            jobs'[j].output # jobs[j].output
                => ArtifactPath(jobs'[j].output) \in files']_vars

\* C5: every processing attempt that ends leaves its job DONE or FAILED; no
\* exception ends an attempt without a change of status.
C5_AttemptEndsDoneOrFailed ==
    [][\A p \in Procs :
          EndsAttempt(p) => jobs'[pjob[p]].status \in {"DONE", "FAILED"}]_vars

\* C6: every change of a job's status is QUEUED->PROCESSING,
\* DONE->PROCESSING, FAILED->PROCESSING, PROCESSING->DONE or
\* PROCESSING->FAILED.
C6_OnlyAllowedTransitions ==
    [][\A j \in JobIds :
          jobs'[j].status # jobs[j].status
              => <<jobs[j].status, jobs'[j].status>> \in AllowedTransitions]_vars

\* C7: a process request on a job whose status is FAILED is not answered
\* busy; it is accepted, and the accepted request writes PROCESSING and
\* starts an attempt.
C7_FailedResubmitAccepted ==
    [][/\ (/\ event'.op = "process_image" /\ event'.result \in {"busy", "accepted"})
            => (jobs[event'.job].status = "FAILED" => event'.result = "accepted")
       /\ \A p \in Procs :
          /\ (pc[p] = "idle" /\ pc'[p] # "idle" /\ jobs[pjob'[p]].status = "FAILED")
                => \/ pc'[p] = "checked" /\ pseen'[p] = "FAILED"
                   \/ pc'[p] = "flushed" /\ jobs'[pjob'[p]].status = "PROCESSING"
          /\ (pc[p] = "checked" /\ pc'[p] # "checked")
                => (pc'[p] = "scheduled" /\ jobs'[pjob[p]].status = "PROCESSING")]_vars

\* a request that loaded the job as FAILED has put it into PROCESSING and
\* its task is scheduled
C7_Witness ==
    \E p \in Procs :
        /\ pc[p] = "scheduled"
        /\ pseen[p] = "FAILED"
        /\ jobs[pjob[p]].status = "PROCESSING"

\* C8: a process request answered busy found the job in PROCESSING and
\* changed nothing: rows, files, attempts and every process are as before.
C8_RejectedChangesNothing ==
    [][event'.result = "busy"
          => /\ jobs[event'.job].status = "PROCESSING"
             /\ UNCHANGED <<users, req, payments, call, impl, jobs, files, nAttempts, nRefs, pc, pjob, pseen, pstyle, pres>>]_vars

\* a request was answered busy while an attempt on that job is running
C8_Witness ==
    /\ event.op = "process_image"
    /\ event.result = "busy"
    /\ \E p \in Procs : InFlight(p) /\ pjob[p] = event.job

\* C9: a pipeline run on a readable image with a style id that is not a
\* defined style raises: no effect is applied, nothing is stored, the job
\* ends FAILED and the message contains the style id.
C9_UnknownStyleFails ==
    [][\A p \in Procs :
          /\ (/\ pc[p] = "loaded" /\ pc'[p] = "ran"
              /\ pstyle[p] \notin DefinedStyles /\ ~IsReadError(pres'[p].msg))
                => /\ ~pres'[p].ok
                   /\ pres'[p].effect = "none"
                   /\ Contains(pres'[p].msg, pstyle[p])
                   /\ files' = files
          /\ (/\ pc[p] = "flushed" /\ pc'[p] = "idle"
              /\ jobs[pjob[p]].style \notin DefinedStyles
              /\ ~IsReadError(jobs'[pjob[p]].error))
                => /\ jobs'[pjob[p]].status = "FAILED"
                   /\ Contains(jobs'[pjob[p]].error, jobs[pjob[p]].style)
                   /\ jobs'[pjob[p]].output = jobs[pjob[p]].output
                   /\ files' = files]_vars

\* C10: a job is DONE only if the artifact its output reference names has
\* been written.
C10_DoneOnlyIfWritten ==
    \A j \in JobIds :
        jobs[j].status = "DONE" => ArtifactPath(jobs[j].output) \in files

\* the value a caller's map gives key k, or the default of the effect
Provided(k) ==
    IF k \in DOMAIN call.args THEN call.args[k] ELSE DefaultsOf(call.fn)[k]

\* an effect has returned
EffectReturned == call.fn \in EffectNames /\ call.done

\* the effect that was called, applied to another map
EffectOf(f, m) ==
    CASE f = "cartoon_effect" -> CartoonEffect(m)
      [] f = "pencil_sketch_effect" -> PencilSketchEffect(m)
      [] OTHER -> ColorPencilEffect(m)

\* C13: every kernel size that must be odd reaches its filter as the odd
\* value `value | 1`: an even value is raised by one, an odd value is
\* unchanged, and the call returns in both cases.
C13_KernelForcedOdd ==
    EffectReturned =>
        \A k \in MustBeOdd(call.fn) :
            /\ call.ret[k] % 2 = 1
            /\ call.ret[k] = IF Provided(k) % 2 = 0 THEN Provided(k) + 1 ELSE Provided(k)

\* a pencil sketch called with blur_kernel_size 8 has blurred with 9
C13_Witness ==
    /\ EffectReturned
    /\ call.fn = "pencil_sketch_effect"
    /\ "blur_kernel_size" \in DOMAIN call.args
    /\ call.args["blur_kernel_size"] = 8
    /\ call.ret["blur_kernel_size"] = 9

\* C14: a provided value outside the declared [min, max] of its parameter
\* reaches the filter as the nearest bound.
C14_OutOfRangeClamped ==
    EffectReturned =>
        \A k \in DOMAIN RangesOf(call.fn) :
            /\ Provided(k) < RangesOf(call.fn)[k][1] => call.ret[k] = RangesOf(call.fn)[k][1]
            /\ Provided(k) > RangesOf(call.fn)[k][2] => call.ret[k] = RangesOf(call.fn)[k][2]

C16_ResizeKeepsAspect ==
    (call.fn = "resize_if_needed" /\ call.done) =>
        LET h == call.args[1]
            w == call.args[2]
            cap == call.args[3]
            longer == Max(h, w)
            shorter == IF h <= w THEN h ELSE w
            scaled == IF h <= w THEN call.ret.h ELSE call.ret.w IN
        /\ call.ret.h <= h
        /\ call.ret.w <= w
        /\ longer <= cap => (call.ret.h = h /\ call.ret.w = w)
        /\ longer > cap =>
            /\ Max(call.ret.h, call.ret.w) = cap
            /\ longer * (scaled - 1) <= shorter * cap
            /\ shorter * cap <= longer * (scaled + 1)

\* C17: the colour dodge of grayscale G and blurred inverted grayscale B is
\* G * 255 / max(255 - B, 1) clamped to 0..255, whichever way the fraction is
\* rounded; with B = 255 the divisor is 1.
C17_DodgeBlendFormula ==
    (call.fn = "dodge_blend" /\ call.done) =>
        LET g == call.args[1]
            d == IF 255 - call.args[2] < 1 THEN 1 ELSE 255 - call.args[2]
            out == call.ret[1] IN
        /\ out \in Bytes
        /\ \/ out = 255 /\ g * 255 >= 255 * d
           \/ out * d <= g * 255 /\ g * 255 < (out + 1) * d
           \/ (out - 1) * d < g * 255 /\ g * 255 <= out * d

\* the attributes of a job the specification speaks of (download_count is
\* not one of them)
JobState(job) == [job EXCEPT !.downloads = 0]

\* C11: a request for the processed output of a job that has one returns the
\* standard artifact when HD is not requested; when HD is requested it
\* returns the HD artifact if the job is unlocked and is answered payment
\* required otherwise; the request does not change the job.
C11_HdGated ==
    [][\A j \in JobIds :
          (/\ event'.op \in {"get_image_file", "download_processed_image"}
           /\ event'.file = "processed"
           /\ event'.job = j
           /\ GetJobById(j, event'.user) # 0
           /\ jobs[j].status = "DONE"
           /\ ArtifactPath(jobs[j].output) \in files)
              => /\ ~event'.hd => event'.result = "file"
                 /\ (event'.hd /\ jobs[j].hd = "Y") => event'.result = "hd_file"
                 /\ (event'.hd /\ jobs[j].hd # "Y") => event'.result = "payment_required"
                 /\ JobState(jobs'[j]) = JobState(jobs[j])]_vars

\* C12: once the HD flag of a job is "Y" no step sets it back.
C12_HdMonotonic ==
    [][\A j \in JobIds : jobs[j].hd = "Y" => jobs'[j].hd = "Y"]_vars

\* a job is unlocked although the gateway has since reported its payment
\* failed, and the job has been processed again
C12_Witness ==
    \E k \in PaymentIds :
        /\ payments[k].status = "FAILED"
        /\ payments[k].job \in JobIds
        /\ jobs[payments[k].job].hd = "Y"
        /\ jobs[payments[k].job].status = "PROCESSING"

\* the operations on one job that take the caller's identity
JobOps ==
    {"get_job_by_id", "get_image_job", "process_image", "get_image_file",
     "download_processed_image", "delete_job"}

\* the step answers a request of user event'.user about a row that is not
\* there or belongs to someone else
ForeignRequest ==
    /\ event'.op \in JobOps
    /\ \/ event'.job \notin JobIds
       \/ jobs[event'.job].user # event'.user

\* C19: a delete attempt on a job the caller owns either removes the row and
\* every file the row names, or leaves the row and all the files as they were.
C19_DeleteAtomic ==
    [][\A j \in JobIds :
          (/\ event'.op = "delete_job"
           /\ event'.job = j
           /\ event'.result # "not_found")
              => \/ /\ j \notin {i \in 1..Len(jobs') : jobs'[i].status # "DELETED"}
                    /\ Range(RowPaths(jobs[j], j)) \cap files' = {}
                 \/ /\ jobs'[j] = jobs[j]
                    /\ files' = files]_vars

RunStarts(j) ==
    \E p \in Procs :
        /\ pjob[p] = j
        /\ \/ pc[p] = "loaded" /\ pc'[p] = "ran"
           \/ pc[p] = "flushed" /\ pc'[p] = "idle"

\* a caller submits job j in this step: the router's handler answers a
\* process request for it, or process_job is called for it
Submitted(j) ==
    \/ /\ event'.op = "process_image"
       /\ event'.job = j
       /\ event'.result \in {"accepted", "processing"}
    \/ \E p \in Procs : pc[p] = "idle" /\ pc'[p] = "flushed" /\ pjob'[p] = j

\* C21: a job that an attempt has set to FAILED stays FAILED, and no pipeline
\* run is started for it, until a caller submits it again.
C21_FailedUntilResubmitted ==
    [][\A j \in JobIds :
          jobs[j].status = "FAILED"
              => \/ jobs'[j].status = "FAILED" /\ ~RunStarts(j)
                 \/ Submitted(j)]_vars

UniqueEmails ==
    \A i, k \in UserIds : users[i].email = users[k].email => i = k

\* the step answers a registration for an email that a user has
DuplicateAnswered ==
    /\ event'.op = "register"
    /\ GetUserByEmail(event'.email) # {}

OwnsJob(u, j) == j \in JobIds /\ jobs[j].user = u

\* C23: create_payment_intent answers not found for a job that is missing or
\* belongs to someone else and bad request for a job that is unlocked, and
\* then changes neither the payments nor the jobs; a call goes on to create a
\* payment only for an existing, own, locked job, and a payment is only
\* created by such a call, for that user and job.
C23_CreateOnlyForOwnLockedJob ==
    [][/\ (event'.op = "create_payment" /\ event'.result # "created")
             => /\ ~OwnsJob(event'.user, event'.job) => event'.result = "not_found"
                /\ (OwnsJob(event'.user, event'.job) /\ jobs[event'.job].hd = "Y")
                      => event'.result = "already_unlocked"
                /\ payments' = payments
                /\ jobs' = jobs
       /\ \A p \in RequestProcs :
             (req[p] = NoRequest /\ req'[p].op = "create_payment")
                 => /\ OwnsJob(req'[p].user, req'[p].job)
                    /\ jobs[req'[p].job].hd # "Y"
       /\ Len(payments') > Len(payments)
             => /\ \E p \in RequestProcs :
                      /\ req[p].op = "create_payment"
                      /\ payments' = Append(payments, NewPayment(req[p].user, req[p].job))
                /\ jobs' = jobs]_vars

\* a payment of the job succeeded, and the owner's next create was answered
\* that HD is already unlocked
C23_Witness ==
    /\ event.op = "create_payment"
    /\ event.result = "already_unlocked"
    /\ OwnsJob(event.user, event.job)
    /\ \E k \in PaymentIds : payments[k].job = event.job /\ payments[k].status = "SUCCESS"

\* C25: no job ever has two payments that are PENDING, and a create for a job
\* that has a pending payment is answered with that payment and adds none.
C25_OnePendingPerJob ==
    /\ [](\A j \in JobIds : Cardinality(PendingPayments(j)) <= 1)
    /\ [][(/\ event'.op = "create_payment"
           /\ OwnsJob(event'.user, event'.job)
           /\ jobs[event'.job].hd # "Y"
           /\ PendingPayments(event'.job) # {})
             => /\ event'.result = "existing"
                /\ payments' = payments]_vars

\* C26: confirm_payment by a user who does not own the payment is answered
\* forbidden, and by the owner of a payment that is not PENDING is answered
\* already processed; either way the payments and the jobs stay as they are,
\* and only a PENDING payment is confirmed.
C26_ConfirmOnlyPending ==
    [][(event'.op = "confirm_payment" /\ event'.job \in PaymentIds)
          => LET k == event'.job IN
             /\ payments[k].user # event'.user
                   => /\ event'.result = "forbidden"
                      /\ payments' = payments
                      /\ jobs' = jobs
             /\ (payments[k].user = event'.user /\ payments[k].status # "PENDING")
                   => /\ event'.result = "already_processed"
                      /\ payments' = payments
                      /\ jobs' = jobs
             /\ event'.result = "confirmed"
                   => /\ payments[k].status = "PENDING"
                      /\ payments[k].user = event'.user]_vars

\* the owner confirmed a payment that had succeeded and was answered already
\* processed; the job is unlocked
C26_Witness ==
    /\ event.op = "confirm_payment"
    /\ event.result = "already_processed"
    /\ event.job \in PaymentIds
    /\ payments[event.job].status = "SUCCESS"
    /\ payments[event.job].ref # NoRef
    /\ payments[event.job].job \in JobIds
    /\ jobs[payments[event.job].job].hd = "Y"

\* C27: a job is unlocked only while some payment for it has status SUCCESS.
C27_UnlockedOnlyIfPaid ==
    \A j \in JobIds :
        jobs[j].hd = "Y"
            => \E k \in PaymentIds : payments[k].job = j /\ payments[k].status = "SUCCESS"

\* C24: for every level count N in 1..256 the posterize step returns, for
\* every channel value v, (v // step) * step + step // 2 with step = 256 // N;
\* the value lies in 0..255 and the values over all v are at most N.
C24_PosterizeLevels ==
    (call.fn = "pop_art_effect" /\ call.done)
        => LET n == call.args[1]
               step == 256 \div n
               r == call.ret[1] IN
           /\ ~r.raised
           /\ \A v \in Bytes :
                 /\ r.out[v] = ((v \div step) * step) + (step \div 2)
                 /\ r.out[v] \in Bytes
           /\ Cardinality({r.out[v] : v \in Bytes}) <= n

\* C28: an upload turned away for its extension or its size leaves the files
\* and the jobs as they were.
C28_RejectedUploadLeavesNothing ==
    [][(event'.op = "upload" /\ event'.result \in {"extension", "size"})
          => /\ files' = files
             /\ jobs' = jobs]_vars

\* C29: an image of at least 1 by 1 whose longer side exceeds the cap is
\* resized to dimensions that are both at least 1.
C29_ResizeKeepsOnePixel ==
    (/\ call.fn = "resize_if_needed"
     /\ call.done
     /\ Max(call.args[1], call.args[2]) > call.args[3])
        => /\ call.ret.h >= 1
           /\ call.ret.w >= 1
           /\ ~call.ret.raised

\* the step belongs to a processing attempt on job k
ProcessingStepOf(k) ==
    \/ \E p \in Procs : pc'[p] # pc[p] /\ (pjob[p] = k \/ pjob'[p] = k)
    \/ event'.op = "process_image" /\ event'.job = k

\* C30: no step takes a row away or changes the owner, the source-image
\* reference or the original filename of a job (its id is its place in the
\* table), and a step of a processing attempt on one job changes no other job.
C30_SourceFieldsImmutable ==
    [][/\ Len(jobs') >= Len(jobs)
       /\ \A j \in 1..Len(jobs) :
             /\ jobs'[j].user = jobs[j].user
             /\ jobs'[j].original = jobs[j].original
       /\ \A k \in 1..Len(jobs) :
             ProcessingStepOf(k) => \A j \in 1..Len(jobs) \ {k} : jobs'[j] = jobs[j]]_vars

\* the first job was paid for, processed with a changed style and has failed;
\* the second is done; both still name their owner and their source
C30_Witness ==
    /\ Len(jobs) = 2
    /\ jobs[1].hd = "Y"
    /\ jobs[1].status = "FAILED"
    /\ jobs[1].style = "cartoon"
    /\ jobs[2].status = "DONE"
    /\ jobs[1].original = [path |-> 1, filename |-> "a.png"]
    /\ jobs[2].original = [path |-> 2, filename |-> "b.png"]
    /\ jobs[1].user = FirstUser

====
